---- MODULE Spec2Model ----
(***************************************************************************)
(* Model of hc11_functions/dataloaders.py: Tarloader (the session index)   *)
(* and Dataloader (the group index) over a small file system.              *)
(*                                                                         *)
(* File names are sequences of one-character strings, so that the regular  *)
(* expressions, str.replace, str.split and int() of the source are         *)
(* computed character by character.                                        *)
(***************************************************************************)
EXTENDS Integers, Sequences, FiniteSets, TLC

\* The file system (top, sub, arch), the caller's Tarloader and Dataloader
\* (loader, dl), what the last operation did (last), and the history of
\* extraction: the sessions whose extraction step ran to completion
\* (extracted), those whose extraction failed after it wrote (partial), and
\* the number of extractall calls made for each session (calls).
VARIABLES top, sub, arch, loader, dl, last, extracted, partial, calls

vars == <<top, sub, arch, loader, dl, last, extracted, partial, calls>>

----------------------------------------------------------------------------
(* Characters and strings *)

Digits == <<"0", "1", "2", "3", "4", "5", "6", "7", "8", "9">>

Upper == <<"A", "B", "C", "D", "E", "F", "G", "H", "I", "J", "K", "L", "M",
           "N", "O", "P", "Q", "R", "S", "T", "U", "V", "W", "X", "Y", "Z">>

Lower == <<"a", "b", "c", "d", "e", "f", "g", "h", "i", "j", "k", "l", "m",
           "n", "o", "p", "q", "r", "s", "t", "u", "v", "w", "x", "y", "z">>

\* The characters that occur in names, in code-point order.
Ascii == <<".">> \o Digits \o Upper \o <<"_">> \o Lower

Range(s) == {s[i] : i \in DOMAIN s}

DigitSet == Range(Digits)

LetterSet == Range(Upper) \cup Range(Lower)

CodeOf == [c \in Range(Ascii) |-> CHOOSE i \in DOMAIN Ascii : Ascii[i] = c]

\* \d
IsDigit(c) == c \in DigitSet

\* [a-zA-Z]
IsLetter(c) == c \in LetterSet

Code(c) == CodeOf[c]

\* Python's < on str: lexicographic by code point.
RECURSIVE StrLess(_, _)
StrLess(a, b) ==
    IF Len(a) = 0 THEN Len(b) > 0
    ELSE IF Len(b) = 0 THEN FALSE
    ELSE IF a[1] = b[1] THEN StrLess(Tail(a), Tail(b))
    ELSE Code(a[1]) < Code(b[1])

\* str.replace(old, ''): every non-overlapping occurrence, left to right.
RECURSIVE Replace(_, _)
Replace(s, old) ==
    IF Len(old) = 0 \/ Len(s) < Len(old) THEN s
    ELSE IF SubSeq(s, 1, Len(old)) = old
         THEN Replace(SubSeq(s, Len(old) + 1, Len(s)), old)
         ELSE <<s[1]>> \o Replace(Tail(s), old)

\* str.split('.')
RECURSIVE SplitDot(_)
SplitDot(s) ==
    IF \A i \in DOMAIN s : s[i] # "."
    THEN <<s>>
    ELSE LET i == CHOOSE j \in DOMAIN s : s[j] = "." /\ \A k \in 1..(j - 1) : s[k] # "."
         IN  <<SubSeq(s, 1, i - 1)>> \o SplitDot(SubSeq(s, i + 1, Len(s)))

DigitVal(c) == CodeOf[c] - CodeOf["0"]

\* int(s) is defined on a nonempty run of digits (a ValueError otherwise).
IsInt(s) == Len(s) > 0 /\ \A i \in DOMAIN s : IsDigit(s[i])

RECURSIVE IntVal(_)
IntVal(s) ==
    IF Len(s) = 0 THEN 0
    ELSE 10 * IntVal(SubSeq(s, 1, Len(s) - 1)) + DigitVal(s[Len(s)])

\* str(n) of an f-string, n >= 0.
RECURSIVE IntStr(_)
IntStr(n) ==
    IF n < 10 THEN <<Digits[n + 1]>>
    ELSE IntStr(n \div 10) \o <<Digits[(n % 10) + 1]>>

\* The elements of a set of strings, ascending.
RECURSIVE SortSet(_)
SortSet(S) ==
    IF S = {} THEN <<>>
    ELSE LET m == CHOOSE x \in S : \A y \in S \ {x} : StrLess(x, y)
         IN  <<m>> \o SortSet(S \ {m})

Min(a, b) == IF a < b THEN a ELSE b

----------------------------------------------------------------------------
(* Tarloader.__init__: the crawl of the two directories *)

\* ext='.tar.gz'
Ext == <<".", "t", "a", "r", ".", "g", "z">>

TagEeg == <<"_", "e", "e", "g">>

TagSpk == <<"_", "s", "p", "k">>

\* The end positions of the matches of the optional group (.tar.gz)? when it
\* starts at position p of f: the empty match, and the seven characters
\* p..p+6 where each dot of the group matches any character.
OptTarGz(f, p) ==
    {p - 1} \cup
    (IF /\ p + 6 <= Len(f)
        /\ SubSeq(f, p + 1, p + 3) = <<"t", "a", "r">>
        /\ SubSeq(f, p + 5, p + 6) = <<"g", "z">>
     THEN {p + 6} ELSE {})

\* re.search(r'[a-zA-Z]+_\d+(.tar.gz)?', f): a match anywhere in f.
SessionSearch(f) ==
    \E k \in 2..Len(f) : \E d \in 1..Len(f) :
        /\ f[k] = "_"
        /\ k + d <= Len(f)
        /\ IsLetter(f[k - 1])
        /\ \A x \in (k + 1)..(k + d) : IsDigit(f[x])
        /\ OptTarGz(f, k + d + 1) # {}

\* f.replace(self.ext, '').replace('_eeg', '').replace('_spk', '')
StripName(f) == Replace(Replace(Replace(f, Ext), TagEeg), TagSpk)

\* Line 48 without np.unique.
NpUniqueMissing(names) == names

\* list(np.unique(names)): the distinct elements, sorted.
NpUnique(names) == SortSet(Range(names))

\* os.listdir(d) as a list; the order is the file system's, and np.unique
\* makes the result independent of it.
ListDir(t, d) == SortSet(t[d])

\* Lines 45-48.
Crawl(t, tar_directory, export_directory) ==
    LET listed == ListDir(t, tar_directory) \o ListDir(t, export_directory)
        kept   == SelectSeq(listed, SessionSearch)
    IN  NpUnique([i \in DOMAIN kept |-> StripName(kept[i])])


----------------------------------------------------------------------------
(* The file system *)

\* top[d] is the listing of directory d; sub[<<d, n>>] is the content of the
\* subdirectory n of d, a function from file name to file content; arch[<<d, n>>]
\* is the state of the archive file n of d.
Dirs == {"d1", "d2"}

None == "None"

NoDir == <<"", <<>>>>

NoTable == [origin |-> "none", dir |-> NoDir, group |-> 0, waveforms |-> FALSE]

RawContent == [kind |-> "raw", table |-> NoTable]

MatContent == [kind |-> "mat", table |-> NoTable]

KClu == <<"c", "l", "u">>

KRes == <<"r", "e", "s">>

KFet == <<"f", "e", "t">>

KSpk == <<"s", "p", "k">>

\* <name>_sessInfo.mat
MetaName(name) ==
    name \o <<"_", "s", "e", "s", "s", "I", "n", "f", "o", ".", "m", "a", "t">>

\* f'COMPILED_{index+1}.csv'
MemoName(g) ==
    <<"C", "O", "M", "P", "I", "L", "E", "D", "_">> \o IntStr(g) \o <<".", "c", "s", "v">>

\* <base>.<kind>.<groupnum>
RawName(base, kind, g) == base \o <<".">> \o kind \o <<".">> \o IntStr(g)

\* The number of groups recorded in each session archive.
ArchGroups == 2

\* The members of the primary archive of a session: the directory <name>/ with
\* the clu, res and fet files of each group and the session metadata file.
PrimaryMembers(name) ==
    [f \in {RawName(name, k, g) : k \in {KClu, KRes, KFet}, g \in 1..ArchGroups}
           \cup {MetaName(name)}
       |-> IF f = MetaName(name) THEN MatContent ELSE RawContent]

\* The members of the _spk archive of a session: <name>/ with the spk files.
SpkMembers(name) ==
    [f \in {RawName(name, KSpk, g) : g \in 1..ArchGroups} |-> RawContent]

\* What a truncated archive leaves behind before extractall raises: the
\* directory and the first member.
TruncMembers(members) ==
    LET f == CHOOSE x \in DOMAIN members : \A y \in DOMAIN members \ {x} : StrLess(x, y)
    IN  [x \in {f} |-> members[x]]

IsSubdir(s, d, n) == <<d, n>> \in DOMAIN s

FilesOf(s, d, n) == IF IsSubdir(s, d, n) THEN s[<<d, n>>] ELSE << >>

\* extractall of members under <name>/ into directory d: files are added or
\* overwritten, nothing is removed.
WriteInto(t, s, d, name, members) ==
    [top |-> [t EXCEPT ![d] = @ \cup {name}],
     sub |-> (<<d, name>> :> (members @@ FilesOf(s, d, name))) @@ s]

----------------------------------------------------------------------------
(* Tarloader *)

Unset == [set |-> FALSE, tar_directory |-> None, export_directory |-> None,
          eeg |-> FALSE, spk |-> FALSE, use_disk |-> FALSE, files |-> << >>]

\* Tarloader.__init__ with the eeg assertion made after the crawl.
TarloaderInitLateCheck(t, tar_directory, export_directory, eeg, spk, use_disk) ==
    IF ~(tar_directory # None \/ export_directory # None)
    THEN [outcome |-> "ConfigurationError", self |-> Unset, listed |-> FALSE]
    ELSE LET tar == IF tar_directory = None THEN export_directory ELSE tar_directory
             exp == IF export_directory = None THEN tar ELSE export_directory
         IN  [outcome |-> IF eeg THEN "UnsupportedFeatureError" ELSE "ok",
              self |-> [set |-> TRUE, tar_directory |-> tar, export_directory |-> exp,
                        eeg |-> eeg, spk |-> spk, use_disk |-> use_disk,
                        files |-> Crawl(t, tar, exp)],
              listed |-> TRUE]

\* Tarloader.__init__: the two assertions, the directory defaults, the
\* attributes, the crawl. listed tells whether os.listdir was called.
TarloaderInit(t, tar_directory, export_directory, eeg, spk, use_disk) ==
    IF ~(tar_directory # None \/ export_directory # None)
    THEN [outcome |-> "ConfigurationError", self |-> Unset, listed |-> FALSE]
    ELSE IF eeg
    THEN [outcome |-> "UnsupportedFeatureError", self |-> Unset, listed |-> FALSE]
    ELSE LET tar == IF tar_directory = None THEN export_directory ELSE tar_directory
             exp == IF export_directory = None THEN tar ELSE export_directory
         IN  [outcome |-> "ok",
              self |-> [set |-> TRUE, tar_directory |-> tar, export_directory |-> exp,
                        eeg |-> eeg, spk |-> spk, use_disk |-> use_disk,
                        files |-> Crawl(t, tar, exp)],
              listed |-> TRUE]

\* Tarloader.__len__
TarloaderLen(self) == Len(self.files)

\* A key of Tarloader.__getitem__: an integer position or a session name.
PosKey(i) == [kind |-> "pos", pos |-> i, name |-> << >>]

NameKey(n) == [kind |-> "name", pos |-> 0, name |-> n]

\* Lines 71-75 with the position of the name taken 1-based.
ResolveOneBased(files, key) ==
    IF key.kind = "name"
    THEN LET idx == {p \in DOMAIN files : files[p] = key.name}
         IN  IF idx = {} THEN [found |-> FALSE, index |-> 0]
             ELSE [found |-> TRUE, index |-> CHOOSE p \in idx : \A q \in idx : p <= q]
    ELSE [found |-> TRUE, index |-> key.pos]

\* Lines 71-75: np.argwhere(np.array(self.files) == index), then idx[0][0]
\* (0-based); an integer key is used as it is.
Resolve(files, key) ==
    IF key.kind = "name"
    THEN LET idx == {p \in DOMAIN files : files[p] = key.name}
         IN  IF idx = {} THEN [found |-> FALSE, index |-> 0]
             ELSE [found |-> TRUE,
                   index |-> (CHOOSE p \in idx : \A q \in idx : p <= q) - 1]
    ELSE [found |-> TRUE, index |-> key.pos]

\* self.files[index] of a Python list: defined for -len <= index < len.
InRange(files, index) == -Len(files) <= index /\ index < Len(files)

At(files, index) ==
    IF index >= 0 THEN files[index + 1] ELSE files[Len(files) + index + 1]

\* The result of one with-block whose extractall wrote w.
Written(outcome, w) ==
    [outcome |-> outcome, top |-> w.top, sub |-> w.sub, called |-> TRUE, wrote |-> TRUE]

\* with tarfile.open(path, 'r:gz') as f: f.extractall(self.export_directory)
\* for the archive of session name with the given tag, in state st ("bad" for
\* a file that is no archive). called tells whether extractall ran; wrote
\* tells whether it changed the export directory.
ExtractArchive(t, s, st, tar, exp, name, tag, members) ==
    IF (name \o tag \o Ext) \notin t[tar]
    THEN [outcome |-> "ArchiveNotFoundError", top |-> t, sub |-> s,
          called |-> FALSE, wrote |-> FALSE]
    ELSE IF st = "bad"
    THEN [outcome |-> "ArchiveCorruptError", top |-> t, sub |-> s,
          called |-> FALSE, wrote |-> FALSE]
    ELSE IF st = "trunc"
    THEN Written("ArchiveCorruptError", WriteInto(t, s, exp, name, TruncMembers(members)))
    ELSE Written("ok", WriteInto(t, s, exp, name, members))

ArchState(a, d, file) == IF <<d, file>> \in DOMAIN a THEN a[<<d, file>>] ELSE "bad"

\* The state of extract after one more with-block.
After(prev, r) ==
    [outcome |-> r.outcome, top |-> r.top, sub |-> r.sub, skipped |-> FALSE,
     calls |-> prev.calls + (IF r.called THEN 1 ELSE 0),
     wrote |-> prev.wrote \/ r.wrote]

\* One with-block of Tarloader.extract after the blocks before it: it runs only
\* when they succeeded (an exception leaves extract) and when its flag is set.
ExtractStep(prev, a, self, name, enabled, tag, members) ==
    IF prev.outcome # "ok" \/ ~enabled THEN prev
    ELSE After(prev,
               ExtractArchive(prev.top, prev.sub,
                              ArchState(a, self.tar_directory, name \o tag \o Ext),
                              self.tar_directory, self.export_directory,
                              name, tag, members))

\* The three with-blocks of Tarloader.extract for session name.
ExtractAll(t, s, a, self, name) ==
    ExtractStep(
      ExtractStep(
        ExtractStep([outcome |-> "ok", top |-> t, sub |-> s, skipped |-> FALSE,
                     calls |-> 0, wrote |-> FALSE],
                    a, self, name, TRUE, << >>, PrimaryMembers(name)),
        a, self, name, self.eeg, TagEeg, << >>),
      a, self, name, self.spk, TagSpk, SpkMembers(name))

\* Tarloader.extract without the early return of lines 52-53.
ExtractNoCheck(t, s, a, self, index) == ExtractAll(t, s, a, self, At(self.files, index))

\* Tarloader.extract(index), index in range. skipped: the early return;
\* calls: the number of extractall calls; wrote: the export directory changed.
Extract(t, s, a, self, index) ==
    IF At(self.files, index) \in Range(ListDir(t, self.export_directory))
    THEN [outcome |-> "ok", top |-> t, sub |-> s, skipped |-> TRUE,
          calls |-> 0, wrote |-> FALSE]
    ELSE ExtractAll(t, s, a, self, At(self.files, index))

----------------------------------------------------------------------------
(* Dataloader *)

NoDl == [set |-> FALSE, directory |-> NoDir, novel |-> NoDir, eeg |-> FALSE,
         spk |-> FALSE, use_disk |-> FALSE, num_files |-> 0]

Kinds == {KClu, KRes, KFet, KSpk}

\* re.search(r'[a-zA-Z]+_\d+.(clu|res|fet|spk).\d+', f); a dot of the pattern
\* matches any character.
GroupSearch(f) ==
    \E k \in 2..Len(f) : \E d \in 1..Len(f) :
        /\ f[k] = "_"
        /\ k + d + 6 <= Len(f)
        /\ IsLetter(f[k - 1])
        /\ \A x \in (k + 1)..(k + d) : IsDigit(f[x])
        /\ SubSeq(f, k + d + 2, k + d + 4) \in Kinds
        /\ IsDigit(f[k + d + 6])

\* int(f.split('.')[2]) is defined: a third field, and an integer in it.
FileNumOk(f) == LET p == SplitDot(f) IN Len(p) >= 3 /\ IsInt(p[3])

FileNum(f) == IntVal(SplitDot(f)[3])

\* Dataloader.__init__: the attributes and the crawl of the directory;
\* np.unique of the group numbers, and its length.
DataloaderInit(s, directory, novel, eeg, spk, use_disk) ==
    LET files   == DOMAIN s[directory]
        matched == {f \in files : GroupSearch(f)}
        fnums   == {FileNum(f) : f \in matched}
    IN  IF \E f \in matched : ~FileNumOk(f)
        THEN [outcome |-> "CrawlError", self |-> NoDl]
        ELSE [outcome |-> "ok",
              self |-> [set |-> TRUE, directory |-> directory, novel |-> novel,
                        eeg |-> eeg, spk |-> spk, use_disk |-> use_disk,
                        num_files |-> Cardinality(fnums)]]

\* Dataloader.__len__
DataloaderLen(self) == self.num_files

\* The directory holds a raw file <base>.<kind>.<g>.
HasRaw(files, kind, g) ==
    \E f \in DOMAIN files :
        LET p == SplitDot(f)
        IN  /\ files[f].kind = "raw"
            /\ Len(p) = 3
            /\ p[2] = kind
            /\ p[3] = IntStr(g)

\* kkio.from_KK(directory, groups_to_get=g, also_get_features=True,
\* also_get_waveforms=spk, ...): the table of group g, from its clu, res and
\* fet files and, with waveforms, its spk file; an error when one is missing.
FromKK(files, directory, g, spk) ==
    IF /\ HasRaw(files, KClu, g) /\ HasRaw(files, KRes, g) /\ HasRaw(files, KFet, g)
       /\ (spk => HasRaw(files, KSpk, g))
    THEN [outcome |-> "ok",
          data |-> [origin |-> "parse", dir |-> directory, group |-> g, waveforms |-> spk]]
    ELSE [outcome |-> "RawParseError", data |-> NoTable]

\* data.to_csv(fname): the content of the file written.
ToCsv(data) == [kind |-> "csv", table |-> data]

\* pd.read_csv(fname, index_col=0): a table rebuilt from the text of the
\* file, which is not the object that was written.
ReadCsv(content) == [content.table EXCEPT !.origin = "csv"]

\* os.path.isfile(fname)
IsFile(files, fname) == fname \in DOMAIN files

\* The else branch of Dataloader.__getitem__ once from_KK gave r: the table
\* is written to fname when use_disk is set.
Parsed(s, self, fname, had, r) ==
    IF r.outcome # "ok"
    THEN [outcome |-> r.outcome, path |-> "parse", read |-> FALSE, wrote |-> FALSE,
          memoExisted |-> had, data |-> NoTable, sub |-> s]
    ELSE [outcome |-> "ok", path |-> "parse", read |-> FALSE,
          wrote |-> self.use_disk, memoExisted |-> had, data |-> r.data,
          sub |-> IF self.use_disk
                  THEN [s EXCEPT ![self.directory] = (fname :> ToCsv(r.data)) @@ @]
                  ELSE s]

\* Dataloader.__getitem__ without the test of line 117: always the raw parse.
GetItemInAlwaysParse(s, self, index, files, fname) ==
    Parsed(s, self, fname, IsFile(files, fname),
           FromKK(files, self.directory, index + 1, self.spk))

\* Dataloader.__getitem__(index), index >= 0, over the files of its directory.
GetItemIn(s, self, index, files, fname) ==
    IF self.use_disk /\ IsFile(files, fname)
    THEN [outcome |-> "ok", path |-> "memo", read |-> TRUE, wrote |-> FALSE,
          memoExisted |-> TRUE, data |-> ReadCsv(files[fname]), sub |-> s]
    ELSE Parsed(s, self, fname, IsFile(files, fname),
                FromKK(files, self.directory, index + 1, self.spk))

\* Dataloader.__getitem__ taking index itself as the group number.
DataloaderGetItemOneBased(s, self, index) ==
    GetItemIn(s, self, index - 1, s[self.directory], MemoName(index))

DataloaderGetItem(s, self, index) ==
    GetItemIn(s, self, index, s[self.directory], MemoName(index + 1))

\* mat73.loadmat(<export>/<name>/<name>_sessInfo.mat) finds its file.
HasMeta(s, exp, name) ==
    IsSubdir(s, exp, name) /\ MetaName(name) \in DOMAIN s[<<exp, name>>]

\* What Tarloader.__getitem__ did, before the Dataloader is built.
Accessed(outcome, index, name, x) ==
    [outcome |-> outcome, index |-> index, name |-> name,
     skipped |-> x.skipped, calls |-> x.calls,
     completed |-> (x.outcome = "ok" /\ ~x.skipped),
     failedPartway |-> (x.outcome # "ok" /\ x.wrote),
     top |-> x.top, sub |-> x.sub, dl |-> NoDl]

\* Lines 84-92: the Dataloader over the session directory.
Returned(res, d) == [res EXCEPT !.outcome = d.outcome, !.dl = d.self]

\* Lines 80-92, after extract gave x.
AfterExtract(self, index, name, x) ==
    IF x.outcome # "ok" THEN Accessed(x.outcome, index, name, x)
    ELSE IF ~HasMeta(x.sub, self.export_directory, name)
    THEN Accessed("MetadataParseError", index, name, x)
    ELSE Returned(Accessed("ok", index, name, x),
                  DataloaderInit(x.sub, <<self.export_directory, name>>,
                                 <<self.export_directory, name>>,
                                 self.eeg, self.spk, self.use_disk))

NoExtract(t, s) ==
    [outcome |-> "none", top |-> t, sub |-> s, skipped |-> FALSE, calls |-> 0,
     wrote |-> FALSE]

\* Lines 77-92, with the key resolved to r. self.files[index] raises the
\* IndexError of an integer out of range.
AfterResolve(t, s, a, self, r) ==
    IF ~r.found
    THEN Accessed("SessionNotFoundError", r.index, << >>, NoExtract(t, s))
    ELSE IF ~InRange(self.files, r.index)
    THEN Accessed("IndexError", r.index, << >>, NoExtract(t, s))
    ELSE AfterExtract(self, r.index, At(self.files, r.index),
                      Extract(t, s, a, self, r.index))

\* Tarloader.__getitem__(key): resolve the key, extract, load the metadata,
\* build the Dataloader. The name-not-found error is the IndexError of line 74.
TarloaderGetItem(t, s, a, self, key) ==
    AfterResolve(t, s, a, self, Resolve(self.files, key))

----------------------------------------------------------------------------
(* The operations a caller performs, and what the last one did *)

NoLast == [op |-> "none", outcome |-> "none", key |-> PosKey(0), index |-> 0,
           name |-> << >>, skipped |-> FALSE, calls |-> 0, listed |-> FALSE,
           tar |-> None, exp |-> None, eeg |-> FALSE,
           path |-> "none", read |-> FALSE, wrote |-> FALSE, memoExisted |-> FALSE,
           data |-> NoTable]

\* How far past the end an integer index is tried.
IdxSlack == 1

\* Session names asked for that no directory holds.
UnknownNames == {<<"z", "_", "9">>}

\* The caller's state after Tarloader(...) gave r.
Constructed(tar_directory, export_directory, eeg, r) ==
    /\ loader' = r.self
    /\ last' = [NoLast EXCEPT !.op = "init", !.outcome = r.outcome,
                              !.listed = r.listed, !.tar = tar_directory,
                              !.exp = export_directory, !.eeg = eeg]
    /\ UNCHANGED <<top, sub, arch, dl, extracted, partial, calls>>

\* Tarloader(tar_directory, export_directory, eeg=..., spk=..., use_disk=...)
Construct(tar_directory, export_directory, eeg, spk, use_disk) ==
    /\ ~loader.set
    /\ Constructed(tar_directory, export_directory, eeg,
                   TarloaderInit(top, tar_directory, export_directory, eeg, spk, use_disk))

\* The count of extractall calls stops at CallCap.
CallCap == 4

CallsOf(c, name) == IF name \in DOMAIN c THEN c[name] ELSE 0

\* The caller's and the file system's state after loader[key] gave r.
SessionAccessed(key, r) ==
    /\ top' = r.top
    /\ sub' = r.sub
    /\ dl' = IF r.outcome = "ok" THEN r.dl ELSE dl
    /\ extracted' = IF r.completed THEN extracted \cup {r.name} ELSE extracted
    /\ partial' = IF r.failedPartway THEN partial \cup {r.name} ELSE partial
    /\ calls' = IF r.calls > 0
                THEN (r.name :> Min(CallsOf(calls, r.name) + r.calls, CallCap)) @@ calls
                ELSE calls
    /\ last' = [NoLast EXCEPT !.op = "session", !.outcome = r.outcome,
                              !.key = key, !.index = r.index, !.name = r.name,
                              !.skipped = r.skipped, !.calls = r.calls]
    /\ UNCHANGED <<arch, loader>>

\* loader[key]
SessionAccess(key) ==
    /\ loader.set
    /\ SessionAccessed(key, TarloaderGetItem(top, sub, arch, loader, key))

SessionAccessByPosition ==
    \E i \in (-1)..(TarloaderLen(loader) + IdxSlack - 1) : SessionAccess(PosKey(i))

SessionAccessByName ==
    \E n \in Range(loader.files) \cup UnknownNames : SessionAccess(NameKey(n))

\* The state after dl[index] gave r.
GroupAccessed(index, r) ==
    /\ sub' = r.sub
    /\ last' = [NoLast EXCEPT !.op = "group", !.outcome = r.outcome,
                              !.index = index, !.path = r.path, !.read = r.read,
                              !.wrote = r.wrote, !.memoExisted = r.memoExisted,
                              !.data = r.data]
    /\ UNCHANGED <<top, arch, loader, dl, extracted, partial, calls>>

\* dl[index]
GroupAccess(index) ==
    /\ dl.set
    /\ GroupAccessed(index, DataloaderGetItem(sub, dl, index))

GroupAccessByIndex ==
    \E i \in 0..(DataloaderLen(dl) + IdxSlack - 1) : GroupAccess(i)

DirArgs == Dirs \cup {None}

Next ==
    \/ \E t \in DirArgs, e \in DirArgs, eeg \in BOOLEAN, spk \in BOOLEAN, ud \in BOOLEAN :
           Construct(t, e, eeg, spk, ud)
    \/ SessionAccessByPosition
    \/ SessionAccessByName
    \/ GroupAccessByIndex

----------------------------------------------------------------------------
(* Initial file systems *)

A1 == <<"a", "_", "1">>

B2 == <<"b", "_", "2">>

Readme == <<"R", "E", "A", "D", "M", "E">>

ArchFile(name, tag) == name \o tag \o Ext

InitRest ==
    /\ loader = Unset
    /\ dl = NoDl
    /\ last = NoLast
    /\ extracted = {}
    /\ partial = {}
    /\ calls = << >>

ArchStates == {"absent", "ok", "trunc", "bad"}

\* d1 holds the archives: those of a_1 in any state, those of b_2 sound;
\* d2 is empty or holds b_2 already extracted.
InitArch ==
    /\ \E pa \in ArchStates, sa \in ArchStates \ {"trunc"}, pre \in BOOLEAN :
        LET have == [f \in {ArchFile(A1, << >>), ArchFile(A1, TagSpk),
                            ArchFile(B2, << >>), ArchFile(B2, TagSpk)} |->
                        IF f = ArchFile(A1, << >>) THEN pa
                        ELSE IF f = ArchFile(A1, TagSpk) THEN sa ELSE "ok"]
            here == {f \in DOMAIN have : have[f] # "absent"}
        IN  /\ top = [d \in Dirs |-> IF d = "d1" THEN here \cup {Readme}
                                     ELSE IF pre THEN {B2} ELSE {}]
            /\ arch = [p \in {<<"d1", f>> : f \in here} |-> have[p[2]]]
            /\ sub = IF pre
                     THEN [p \in {<<"d2", B2>>} |-> PrimaryMembers(B2) @@ SpkMembers(B2)]
                     ELSE << >>
    /\ InitRest

Spec == InitArch /\ [][Next]_vars


Note == <<"a", "_", "1", ".", "t", "x", "t">>

Hidden == <<".", "_">> \o ArchFile(B2, << >>)

\* The entries the archive directory is drawn from: archives with and without
\* tags, a file that is no session, a note named after a session, and the
\* hidden companion file of an archive.
EntryUniverse ==
    {ArchFile(A1, << >>), ArchFile(A1, TagSpk), ArchFile(A1, TagEeg),
     ArchFile(B2, << >>), Readme, Note, Hidden}

\* The most entries the archive directory starts with.
MaxEntries == 2

\* d1 holds any MaxEntries entries of the universe, every archive sound; d2
\* is empty or holds a_1 already extracted.
InitNames ==
    /\ \E E \in SUBSET EntryUniverse, pre \in BOOLEAN :
        /\ Cardinality(E) <= MaxEntries
        /\ top = [d \in Dirs |-> IF d = "d1" THEN E ELSE IF pre THEN {A1} ELSE {}]
        /\ arch = [p \in {<<"d1", f>> : f \in E \ {Readme, Note, Hidden}} |-> "ok"]
        /\ sub = IF pre
                 THEN [p \in {<<"d2", A1>>} |-> PrimaryMembers(A1) @@ SpkMembers(A1)]
                 ELSE << >>
    /\ InitRest

SpecNames == InitNames /\ [][Next]_vars

\* The largest group number of the raw files a session directory starts with.
MaxGroup == 2

\* The raw files of the groups G of a session, the metadata file, and the
\* tables COMPILED_<g>.csv, g in M, that an earlier run left behind.
SessionDir(name, G, M) ==
    [f \in {RawName(name, k, g) : k \in Kinds, g \in G} |-> RawContent]
    @@ [f \in {MetaName(name)} |-> MatContent]
    @@ [f \in {MemoName(g) : g \in M} |->
           ToCsv([origin |-> "parse", dir |-> <<"d2", name>>,
                  group |-> CHOOSE g \in M : MemoName(g) = f,
                  waveforms |-> TRUE])]


\* d2 holds the session directory a_1 with the raw files of any groups up to
\* MaxGroup and any memoized tables up to MaxGroup + 1; d1 is empty.
InitGroups ==
    /\ \E G \in SUBSET (1..MaxGroup), M \in SUBSET (1..(MaxGroup + 1)) :
        /\ top = [d \in Dirs |-> IF d = "d2" THEN {A1} ELSE {}]
        /\ arch = << >>
        /\ sub = [p \in {<<"d2", A1>>} |-> SessionDir(A1, G, M)]
    /\ InitRest

SpecGroups == InitGroups /\ [][Next]_vars


----------------------------------------------------------------------------
(* Properties *)

\* The archives Tarloader.extract opens for a session: the primary one and,
\* with spk, the spike one (eeg is never set on a constructed Tarloader).
ArchivesOf(self) == 1 + (IF self.spk THEN 1 ELSE 0)

\* C1: once an access's extraction step ran to completion for a session, the
\* session is in the listing of the export directory and no archive of it is
\* extracted again: every archive of it was extracted exactly once, and an
\* access to it takes the early return and makes no extractall call.
C1_ExtractedOnce ==
    \A n \in extracted :
        /\ n \in top[loader.export_directory]
        /\ CallsOf(calls, n) = ArchivesOf(loader)
        /\ (last.op = "session" /\ last.name = n /\ last.skipped) => last.calls = 0
        /\ (last.op = "session" /\ last.name = n /\ ~last.skipped) =>
               last.calls = ArchivesOf(loader)

\* A later access to an extracted session, by name, that took the early return.
C1_Witness ==
    /\ last.op = "session"
    /\ last.key.kind = "name"
    /\ last.name \in extracted
    /\ last.skipped
    /\ last.outcome = "ok"

\* C2: an access to a session whose extraction failed after it wrote part of
\* the session does not skip extraction and return a Dataloader.
C2_PartialNotSuccess ==
    (last.op = "session" /\ last.name \in partial) =>
        ~(last.skipped /\ last.outcome = "ok")

\* C5: for every session name, access by the name and access by the position
\* of the name in the sorted name list have the same outcome, the same effect
\* on the file system and return the same Dataloader.
C5_NameAsPosition ==
    loader.set =>
        \A p \in DOMAIN loader.files :
            TarloaderGetItem(top, sub, arch, loader, NameKey(loader.files[p]))
                = TarloaderGetItem(top, sub, arch, loader, PosKey(p - 1))

\* An access by name, to a session that is not the first of the list, that
\* extracted the session and returned.
C5_Witness ==
    /\ last.op = "session"
    /\ last.key.kind = "name"
    /\ last.index > 0
    /\ last.outcome = "ok"
    /\ ~last.skipped

\* C7: an integer index >= length raises an index error on the Tarloader and
\* on the Dataloader, and a name that is not in the list raises the
\* session-not-found error. (On the Dataloader the parser's own error for a
\* group without files is taken as one too.)
C7_OutOfRangeRaises ==
    /\ (last.op = "session" /\ last.key.kind = "pos"
            /\ last.key.pos >= TarloaderLen(loader)) => last.outcome = "IndexError"
    /\ (last.op = "session" /\ last.key.kind = "name"
            /\ last.key.name \notin Range(loader.files)) =>
                last.outcome = "SessionNotFoundError"
    /\ (last.op = "group" /\ last.index >= DataloaderLen(dl)) =>
           last.outcome \in {"IndexError", "RawParseError"}

\* C8: construction fails with ConfigurationError when no directory is given
\* and with UnsupportedFeatureError when eeg is asked for (the directories are
\* checked first), in both cases before os.listdir is called and with no
\* attribute set; with exactly one directory it succeeds and both directories
\* are that one.
C8_ConstructorChecks ==
    last.op = "init" =>
        /\ (last.tar = None /\ last.exp = None) => last.outcome = "ConfigurationError"
        /\ (last.eeg /\ ~(last.tar = None /\ last.exp = None)) =>
               last.outcome = "UnsupportedFeatureError"
        /\ (~last.eeg /\ ~(last.tar = None /\ last.exp = None)) =>
               (last.outcome = "ok" /\ loader.set /\ last.listed)
        /\ last.outcome # "ok" => (~last.listed /\ loader = Unset)
        /\ (last.outcome = "ok" /\ last.tar = None) =>
               (loader.tar_directory = last.exp /\ loader.export_directory = last.exp)
        /\ (last.outcome = "ok" /\ last.exp = None) =>
               (loader.tar_directory = last.tar /\ loader.export_directory = last.tar)

\* A construction that asked for eeg, with a directory, and failed.
C8_Witness ==
    /\ last.op = "init"
    /\ last.eeg
    /\ last.tar # None
    /\ last.outcome = "UnsupportedFeatureError"


\* A Dataloader access happened on the current Dataloader, whose directory
\* the file system holds.
GroupStep == last.op = "group" /\ dl.set

\* C3: with use_disk, an access to a group whose COMPILED_<g>.csv exists
\* returns the table read from that file and leaves every file as it is;
\* without use_disk an access parses the raw files and neither reads nor
\* writes a file. No step removes a file, so the table stays once present.
C3_MemoAuthoritative ==
    [][/\ \A d \in DOMAIN sub :
              d \in DOMAIN sub' /\ DOMAIN sub[d] \subseteq DOMAIN sub'[d]
       /\ (dl.set /\ last'.op = "group") =>
            LET files == sub[dl.directory]
                fname == MemoName(last'.index + 1)
                raw   == FromKK(files, dl.directory, last'.index + 1, dl.spk)
            IN  /\ (dl.use_disk /\ fname \in DOMAIN files) =>
                      /\ sub' = sub
                      /\ last'.outcome = "ok"
                      /\ last'.path = "memo"
                      /\ last'.data = ReadCsv(files[fname])
                /\ ~dl.use_disk =>
                      /\ sub' = sub
                      /\ last'.path = "parse"
                      /\ ~last'.read
                      /\ ~last'.wrote
                      /\ last'.outcome = raw.outcome
                      /\ last'.data = raw.data]_vars

\* An access that parsed and wrote the table of a group was followed by an
\* access that read it back: the table returned is the one parsed from this
\* directory without waveforms, which only this run can have written.
C3_Witness ==
    /\ GroupStep
    /\ dl.use_disk
    /\ ~dl.spk
    /\ last.path = "memo"
    /\ last.data.waveforms = FALSE

\* C6 as stated: access with index g in 1..len returns the table of group g.
C6_OneBased ==
    (GroupStep /\ last.index \in 1..DataloaderLen(dl)) =>
        LET files == sub[dl.directory]
            fname == MemoName(last.index)
            raw   == FromKK(files, dl.directory, last.index, dl.spk)
        IN  /\ last.path = "memo" =>
                /\ last.outcome = "ok"
                /\ fname \in DOMAIN files
                /\ last.data = ReadCsv(files[fname])
            /\ last.path = "parse" =>
                /\ last.outcome = raw.outcome
                /\ last.data = raw.data
                /\ last.outcome = "ok" => last.data.group = last.index

\* C6 as amended: the index is a 0-based position. For i in 0..len-1 access
\* with index i is about group i + 1: it returns the table read from
\* COMPILED_<i+1>.csv, or the table parsed from the raw files of group i + 1,
\* which with use_disk is then the content of COMPILED_<i+1>.csv; it fails
\* only with the parser's error, when group i + 1 has no complete raw files.
C6_ZeroBased ==
    (GroupStep /\ last.index \in 0..(DataloaderLen(dl) - 1)) =>
        LET files == sub[dl.directory]
            fname == MemoName(last.index + 1)
            raw   == FromKK(files, dl.directory, last.index + 1, dl.spk)
        IN  /\ last.path = "memo" =>
                (last.outcome = "ok" /\ last.data = ReadCsv(files[fname]))
            /\ last.path = "parse" =>
                /\ last.outcome = raw.outcome
                /\ last.data = raw.data
                /\ last.outcome = "ok" => last.data.group = last.index + 1
                /\ (last.outcome = "ok" /\ dl.use_disk) =>
                       (fname \in DOMAIN files /\ files[fname] = ToCsv(last.data))

\* An access with index 1 of a Dataloader of length 2 that parsed group 2.
C6_Witness ==
    /\ GroupStep
    /\ DataloaderLen(dl) = 2
    /\ last.index = 1
    /\ last.path = "parse"
    /\ last.outcome = "ok"
    /\ last.data.group = 2

\* The group numbers of the files of a directory that match the per-group
\* naming convention.
GroupNumbers(files) == {FileNum(f) : f \in {x \in DOMAIN files : GroupSearch(x)}}

\* C10: the group numbers found in a Dataloader's directory are exactly
\* 1..len(Dataloader).
C10_Contiguous ==
    dl.set => GroupNumbers(sub[dl.directory]) = 1..DataloaderLen(dl)

\* An entry is named as a session: letters, an underscore and digits occur
\* in it, in this order and next to each other.
NamedAsSession(e) ==
    \E i \in 1..(Len(e) - 2) : IsLetter(e[i]) /\ e[i + 1] = "_" /\ IsDigit(e[i + 2])

\* The canonical session names of both directories of a Tarloader.
CanonicalNames(t, self) ==
    {StripName(e) : e \in {x \in t[self.tar_directory] \cup t[self.export_directory] :
                              NamedAsSession(x)}}

StrictlySorted(names) ==
    \A i \in 1..(Len(names) - 1) : StrLess(names[i], names[i + 1])

\* C9: right after construction the length of the Tarloader is the number of
\* distinct canonical names of the entries of both directories that are named
\* as sessions; the names are always distinct and sorted; no later step
\* changes the list or the length.
C9_LenIsDistinctNames ==
    /\ [](loader.set => StrictlySorted(loader.files))
    /\ []((loader.set /\ last.op = "init") =>
            /\ TarloaderLen(loader) = Cardinality(CanonicalNames(top, loader))
            /\ Range(loader.files) = CanonicalNames(top, loader))
    /\ [][loader.set => (loader'.files = loader.files
                           /\ TarloaderLen(loader') = TarloaderLen(loader))]_vars

\* A Tarloader over two directories whose length is smaller than the number
\* of entries named as sessions (names were merged), used for an access that
\* extracted a session.
C9_Witness ==
    /\ loader.set
    /\ loader.tar_directory # loader.export_directory
    /\ TarloaderLen(loader) = 2
    /\ Cardinality({x \in top[loader.tar_directory] \cup top[loader.export_directory] :
                       NamedAsSession(x)}) > TarloaderLen(loader)
    /\ last.op = "session"
    /\ last.outcome = "ok"

====
